---- MODULE Spec2Model ----
(***************************************************************************)
(* Model of src/convert.rs: the Converter that turns laid-out frames into  *)
(* (text, Mapping) chunks, document() that drives it page by page, and     *)
(* Mapping::location that resolves a suggestion back to source ranges.     *)
(*                                                                         *)
(* Lengths (typst Abs) are integers in units of half the approx_eq         *)
(* tolerance; font-relative lengths (typst Em) are hundredths of an em.    *)
(* A String is a sequence of characters; a character of the supplementary  *)
(* planes takes two UTF-16 code units.                                     *)
(***************************************************************************)
EXTENDS Integers, Sequences, FiniteSets, TLC

\* ------------------------------------------------------------------ bounds
MaxItems == 2        \* frame items visited by one document() call
MaxPages == 2        \* pages of the document
MaxDepth == 1        \* nesting depth of Group items
MaxChunkSize == 1    \* chunk_size ranges over 0..MaxChunkSize
MaxChars == 3        \* entries of the Mapping handed to location()

\* ------------------------------------------------------------------ spans
Detached == [id |-> "none", num |-> 0]
SpanT1 == [id |-> "F1", num |-> 1]
SpanT2 == [id |-> "F1", num |-> 2]
SpanN1 == [id |-> "F1", num |-> 3]
SpanN2 == [id |-> "F1", num |-> 4]
SpanM == [id |-> "F1", num |-> 9]
SpanX == [id |-> "F2", num |-> 1]

FileIds == {"F1", "F2"}

NoEntry == [span |-> Detached, range |-> [start |-> 0, end |-> 0]]

U16(n) == n % 65536

\* ------------------------------------------------------------------ text
Chars == {"a", "U+1F600"}

Utf16Units(c) == IF c = "U+1F600" THEN 2 ELSE 1

RECURSIVE Utf16Len(_)
Utf16Len(s) == IF s = <<>> THEN 0 ELSE Utf16Units(Head(s)) + Utf16Len(Tail(s))

\* ------------------------------------------------------------------ geometry
LINE_SPACING == 65

AbsVal(a) == IF a < 0 THEN -a ELSE a

approx_eq(a, b) == a = b \/ AbsVal(a - b) < 2

EmAt(em, size) == (em * size) \div 100

Zero == [x |-> 0, y |-> 0]

PointAdd(p, q) == [x |-> p.x + q.x, y |-> p.y + q.y]

\* ------------------------------------------------------------------ inputs
\* Glyphs of a TextItem: span is (Span, offset in the source node), range is
\* the glyph's byte range in the item's text.
GlyphA == [span |-> <<SpanT1, 0>>, range |-> [start |-> 0, end |-> 1]]
GlyphB == [span |-> <<SpanT1, 1>>, range |-> [start |-> 1, end |-> 3]]
GlyphX == [span |-> <<SpanX, 0>>, range |-> [start |-> 0, end |-> 1]]

Glyphs == {GlyphA, GlyphB, GlyphX}

GlyphSeqs == {<<>>, <<GlyphA>>, <<GlyphB>>, <<GlyphX>>, <<GlyphA, GlyphB>>}

Texts == {<<>>, <<"a">>, <<"U+1F600">>}

Points == {[x |-> px, y |-> py] : px \in {0, 2}, py \in {0, 4}}

TextItems == [text : Texts, glyphs : GlyphSeqs, width : {1}, size : {4}, cap_height : {35}]

NoopKinds == {"Shape", "Image", "Meta::Link", "Meta::Elem", "Meta::Hide"}

NoItem == [kind |-> "none"]

\* ------------------------------------------------------------------ state
VARIABLES
    chunk_size,   \* document(): parameter chunk_size
    file_id,      \* document(): parameter file_id
    res,          \* document(): the output list of (text, mapping) chunks
    converter,    \* the live Converter
    page,         \* document(): number of pages entered so far
    stack,        \* Converter::frame: the pos argument of every active call
    pc,           \* "pages" (document's loop), "frame", "done", "panic"
    item,         \* the argument of the latest Converter::item call, pos absolute
    n,            \* number of Converter::item calls so far
    prior,        \* the outputs of document() on each earlier page alone, concatenated
    solo,         \* document() on the current page alone: its res and its converter
    produced,     \* the entries of file_id pushed so far, in traversal order
    chars,        \* location(): self.chars
    suggestion,   \* location(): the suggestion
    i,            \* location(): number of entries of the slice consumed
    locations,    \* location(): the local locations
    lpc,          \* "idle", "loop", "returned", "panic"
    build,        \* "debug" (overflow checks on) or "release" (wrapping)
    glyph,        \* the glyph whose mapping entry is built
    entry,        \* Converter::item: the entry m built from glyph
    mpc           \* "idle", "built", "panic"

cvars == <<chunk_size, file_id, res, converter, page, stack, pc, item, n,
           prior, solo, produced>>
lvars == <<chars, suggestion, i, locations, lpc>>
mvars == <<build, glyph, entry, mpc>>
vars == <<chunk_size, file_id, res, converter, page, stack, pc, item, n,
          prior, solo, produced, chars, suggestion, i, locations, lpc,
          build, glyph, entry, mpc>>

\* ------------------------------------------------------------------ Converter
new(cs) ==
    [text |-> <<>>, mapping |-> <<>>, x |-> 0, y |-> 0,
     span |-> <<Detached, 0>>, chunk_size |-> cs, contains_file |-> FALSE]

insert_space(c) ==
    [c EXCEPT !.text = @ \o <<" ">>, !.mapping = Append(@, NoEntry)]

\* Variants of seperate: one pushes the chunk whatever contains_file says, one
\* pushes it but keeps accumulating in the same converter.
seperateAlways(c, r) ==
    [c |-> new(c.chunk_size), res |-> Append(r, <<c.text, c.mapping>>)]

seperateKeep(c, r) ==
    [c |-> c,
     res |-> IF c.contains_file THEN Append(r, <<c.text, c.mapping>>) ELSE r]

seperate(c, r) ==
    [c |-> new(c.chunk_size),
     res |-> IF c.contains_file THEN Append(r, <<c.text, c.mapping>>) ELSE r]

\* Variant of insert_parbreak without the return after seperate().
insert_parbreakNoReturn(c, r) ==
    LET b == IF Len(c.mapping) > c.chunk_size
             THEN seperate(c, r)
             ELSE [c |-> c, res |-> r]
    IN  [c |-> [b.c EXCEPT !.text = @ \o <<"\n", "\n">>,
                            !.mapping = @ \o <<NoEntry, NoEntry>>],
         res |-> b.res]

\* Variant of insert_parbreak that flushes on reaching the limit.
insert_parbreakEager(c, r) ==
    IF Len(c.mapping) >= c.chunk_size
    THEN seperate(c, r)
    ELSE [c |-> [c EXCEPT !.text = @ \o <<"\n", "\n">>,
                          !.mapping = @ \o <<NoEntry, NoEntry>>],
          res |-> r]

\* Variant of insert_parbreak whose limit is off by one.
insert_parbreakLate(c, r) ==
    IF Len(c.mapping) > c.chunk_size + 1
    THEN seperate(c, r)
    ELSE [c |-> [c EXCEPT !.text = @ \o <<"\n", "\n">>,
                          !.mapping = @ \o <<NoEntry, NoEntry>>],
          res |-> r]

insert_parbreak(c, r) ==
    IF Len(c.mapping) > c.chunk_size
    THEN seperate(c, r)
    ELSE [c |-> [c EXCEPT !.text = @ \o <<"\n", "\n">>,
                          !.mapping = @ \o <<NoEntry, NoEntry>>],
          res |-> r]

\* Variant of whitespace that compares the x positions exactly.
whitespaceExact(c, r, t, pos) ==
    IF c.x = pos.x
    THEN [c |-> c, res |-> r, panic |-> FALSE]
    ELSE LET line_spacing == EmAt(t.cap_height + LINE_SPACING, t.size)
             next_line == approx_eq(c.y + line_spacing, pos.y)
         IN  IF ~next_line
             THEN LET b == insert_parbreak(c, r)
                  IN  [c |-> b.c, res |-> b.res, panic |-> FALSE]
             ELSE IF t.glyphs = <<>>
             THEN [c |-> c, res |-> r, panic |-> TRUE]
             ELSE IF t.glyphs[1].span = c.span
             THEN [c |-> c, res |-> r, panic |-> FALSE]
             ELSE [c |-> insert_space(c), res |-> r, panic |-> FALSE]

\* Variant of whitespace that compares the end of the first glyph's sub-range,
\* not its offset, with the tracked span.
whitespaceRangeEnd(c, r, t, pos) ==
    IF approx_eq(c.x, pos.x)
    THEN [c |-> c, res |-> r, panic |-> FALSE]
    ELSE LET line_spacing == EmAt(t.cap_height + LINE_SPACING, t.size)
             next_line == approx_eq(c.y + line_spacing, pos.y)
         IN  IF ~next_line
             THEN LET b == insert_parbreak(c, r)
                  IN  [c |-> b.c, res |-> b.res, panic |-> FALSE]
             ELSE IF t.glyphs = <<>>
             THEN [c |-> c, res |-> r, panic |-> TRUE]
             ELSE IF <<t.glyphs[1].span[1],
                       U16(t.glyphs[1].span[2]
                           + U16(t.glyphs[1].range.end - t.glyphs[1].range.start))>> = c.span
             THEN [c |-> c, res |-> r, panic |-> FALSE]
             ELSE [c |-> insert_space(c), res |-> r, panic |-> FALSE]

\* Outcome of whitespace(): the converter, the output list, and whether the
\* index text.glyphs[0] was out of bounds.
whitespace(c, r, t, pos) ==
    IF approx_eq(c.x, pos.x)
    THEN [c |-> c, res |-> r, panic |-> FALSE]
    ELSE LET line_spacing == EmAt(t.cap_height + LINE_SPACING, t.size)
             next_line == approx_eq(c.y + line_spacing, pos.y)
         IN  IF ~next_line
             THEN LET b == insert_parbreak(c, r)
                  IN  [c |-> b.c, res |-> b.res, panic |-> FALSE]
             ELSE IF t.glyphs = <<>>
             THEN [c |-> c, res |-> r, panic |-> TRUE]
             ELSE IF t.glyphs[1].span = c.span
             THEN [c |-> c, res |-> r, panic |-> FALSE]
             ELSE [c |-> insert_space(c), res |-> r, panic |-> FALSE]

\* The mapping entry m built from the glyph the iterator yields (or None); the
\* u16 addition wraps where overflow checks are off.
GlyphEntry(g) ==
    [span |-> g.span[1],
     range |-> [start |-> g.span[2],
                end |-> U16(g.span[2] + U16(g.range.end - g.range.start))]]

\* Variant of ItemEntries that iterates over the characters of the text.
ItemEntriesPerChar(t) ==
    [k \in 1..Len(t.text) |->
        IF k <= Len(t.glyphs) THEN GlyphEntry(t.glyphs[k]) ELSE NoEntry]

\* The entries the loop over t.text.encode_utf16() pushes: one iteration, and
\* one iter.next(), per UTF-16 code unit.
ItemEntries(t) ==
    [k \in 1..Utf16Len(t.text) |->
        IF k <= Len(t.glyphs) THEN GlyphEntry(t.glyphs[k]) ELSE NoEntry]

SpanAfter(sp, es) ==
    LET idx == {k \in 1..Len(es) : es[k].span.id # "none"}
    IN  IF idx = {} THEN sp
        ELSE LET k == CHOOSE m \in idx : \A l \in idx : l <= m
             IN  <<es[k].span, es[k].range.end>>

ContainsAfter(cf, es, fid) == cf \/ \E k \in 1..Len(es) : es[k].span.id = fid

\* The Text arm of Converter::item after whitespace() has returned.
TextArm(c, t, pos, fid) ==
    LET es == ItemEntries(t)
    IN  [c EXCEPT !.x = pos.x + t.width,
                  !.y = pos.y,
                  !.text = @ \o t.text,
                  !.span = SpanAfter(@, es),
                  !.contains_file = ContainsAfter(@, es, fid),
                  !.mapping = @ \o es]

\* ------------------------------------------------------------------ document()
Init ==
    /\ chunk_size \in 0..MaxChunkSize
    /\ file_id \in {"F1"}
    /\ res = <<>>
    /\ converter = new(chunk_size)
    /\ page = 0
    /\ stack = <<>>
    /\ pc = "pages"
    /\ item = NoItem
    /\ n = 0
    /\ prior = <<>>
    /\ solo = [res |-> <<>>, converter |-> new(chunk_size)]
    /\ produced = <<>>
    /\ chars = <<>>
    /\ suggestion = [start |-> 0, end |-> 0]
    /\ i = 0
    /\ locations = <<>>
    /\ lpc = "idle"
    /\ build = "release"
    /\ glyph = GlyphA
    /\ entry = NoEntry
    /\ mpc = "idle"

\* for page in &doc.pages: a fresh Converter, then converter.frame(.., zero, ..)
PageBegin ==
    /\ pc = "pages"
    /\ page < MaxPages
    /\ page' = page + 1
    /\ converter' = new(chunk_size)
    /\ stack' = <<Zero>>
    /\ pc' = "frame"
    /\ solo' = [res |-> <<>>, converter |-> new(chunk_size)]
    /\ UNCHANGED <<chunk_size, file_id, res, item, n, prior, produced>>
    /\ UNCHANGED lvars
    /\ UNCHANGED mvars

IsFileEntry(e) == e.span.id = file_id

\* Converter::item on a Text item at p within the innermost active frame.
ItemText ==
    /\ pc = "frame"
    /\ n < MaxItems
    /\ \E p \in Points, t \in TextItems :
          LET pos == PointAdd(p, stack[Len(stack)])
              w == whitespace(converter, res, t, pos)
          IN  /\ item' = [kind |-> "Text", pos |-> pos, text |-> t.text,
                          glyphs |-> t.glyphs, width |-> t.width, size |-> t.size,
                          cap_height |-> t.cap_height]
              /\ IF w.panic
                 THEN /\ pc' = "panic"
                      /\ UNCHANGED <<converter, res, produced>>
                 ELSE /\ pc' = pc
                      /\ converter' = TextArm(w.c, t, pos, file_id)
                      /\ res' = w.res
                      /\ produced' = produced \o SelectSeq(ItemEntries(t), IsFileEntry)
              /\ LET sw == whitespace(solo.converter, solo.res, t, pos)
                 IN  solo' = IF sw.panic THEN solo
                             ELSE [res |-> sw.res,
                                   converter |-> TextArm(sw.c, t, pos, file_id)]
    /\ n' = n + 1
    /\ UNCHANGED <<chunk_size, file_id, page, stack, prior>>
    /\ UNCHANGED lvars
    /\ UNCHANGED mvars

\* Variant of ItemNoop that moves the cursor to the item's position.
ItemNoopCursor ==
    /\ pc = "frame"
    /\ n < MaxItems
    /\ \E p \in Points, k \in NoopKinds :
          /\ item' = [kind |-> k]
          /\ converter' = [converter EXCEPT !.x = PointAdd(p, stack[Len(stack)]).x,
                                            !.y = PointAdd(p, stack[Len(stack)]).y]
    /\ n' = n + 1
    /\ UNCHANGED <<chunk_size, file_id, res, page, stack, pc, prior, solo, produced>>
    /\ UNCHANGED lvars
    /\ UNCHANGED mvars

\* Converter::item on a Shape, Image or Meta item; the arm reads nothing of the
\* item, its position included.
ItemNoop ==
    /\ pc = "frame"
    /\ n < MaxItems
    /\ \E k \in NoopKinds : item' = [kind |-> k]
    /\ n' = n + 1
    /\ UNCHANGED <<chunk_size, file_id, res, converter, page, stack, pc,
                   prior, solo, produced>>
    /\ UNCHANGED lvars
    /\ UNCHANGED mvars

\* Converter::item on a Group: self.frame(&g.frame, pos, ..) is entered.
ItemGroup ==
    /\ pc = "frame"
    /\ n < MaxItems
    /\ Len(stack) <= MaxDepth
    /\ \E p \in Points :
          LET pos == PointAdd(p, stack[Len(stack)])
          IN  /\ item' = [kind |-> "Group", pos |-> pos]
              /\ stack' = Append(stack, pos)
    /\ n' = n + 1
    /\ UNCHANGED <<chunk_size, file_id, res, converter, page, pc, prior, solo, produced>>
    /\ UNCHANGED lvars
    /\ UNCHANGED mvars

\* The items of a Group's frame are exhausted: its frame() call returns.
GroupEnd ==
    /\ pc = "frame"
    /\ Len(stack) > 1
    /\ stack' = SubSeq(stack, 1, Len(stack) - 1)
    /\ UNCHANGED <<chunk_size, file_id, res, converter, page, pc, item, n,
                   prior, solo, produced>>
    /\ UNCHANGED lvars
    /\ UNCHANGED mvars

\* Variant of PageEnd that puts the page's last chunk in front of the list.
PageEndPrepend ==
    /\ pc = "frame"
    /\ Len(stack) = 1
    /\ res' = IF converter.contains_file
              THEN <<(<<converter.text, converter.mapping>>)>> \o res
              ELSE res
    /\ converter' = new(chunk_size)
    /\ stack' = <<>>
    /\ pc' = "pages"
    /\ prior' = prior \o solo.res \o
                 (IF solo.converter.contains_file
                  THEN <<(<<solo.converter.text, solo.converter.mapping>>)>>
                  ELSE <<>>)
    /\ solo' = [res |-> <<>>, converter |-> new(chunk_size)]
    /\ UNCHANGED <<chunk_size, file_id, page, item, n, produced>>
    /\ UNCHANGED lvars
    /\ UNCHANGED mvars

\* The page's frame() call returns; the converter's chunk is pushed if it
\* contains the file, and the converter is dropped.
PageEnd ==
    /\ pc = "frame"
    /\ Len(stack) = 1
    /\ res' = IF converter.contains_file
              THEN Append(res, <<converter.text, converter.mapping>>)
              ELSE res
    /\ converter' = new(chunk_size)
    /\ stack' = <<>>
    /\ pc' = "pages"
    /\ prior' = prior \o solo.res \o
                 (IF solo.converter.contains_file
                  THEN <<(<<solo.converter.text, solo.converter.mapping>>)>>
                  ELSE <<>>)
    /\ solo' = [res |-> <<>>, converter |-> new(chunk_size)]
    /\ UNCHANGED <<chunk_size, file_id, page, item, n, produced>>
    /\ UNCHANGED lvars
    /\ UNCHANGED mvars

\* No page is left: document() returns res.
Return ==
    /\ pc = "pages"
    /\ pc' = "done"
    /\ UNCHANGED <<chunk_size, file_id, res, converter, page, stack, item, n,
                   prior, solo, produced>>
    /\ UNCHANGED lvars
    /\ UNCHANGED mvars

Next == PageBegin \/ ItemText \/ ItemNoop \/ ItemGroup \/ GroupEnd \/ PageEnd \/ Return

Spec == Init /\ [][Next]_vars

\* ------------------------------------------------------------------ location()
\* The Source handed to location(): its id and what find(span) returns.
SourceId == "F1"

NoNode == [kind |-> "none"]

Find(span) ==
    IF span = SpanT1 THEN [kind |-> "Text", range |-> [start |-> 10, end |-> 14]]
    ELSE IF span = SpanT2 THEN [kind |-> "Text", range |-> [start |-> 14, end |-> 16]]
    ELSE IF span = SpanN1 THEN [kind |-> "Equation", range |-> [start |-> 20, end |-> 25]]
    ELSE IF span = SpanN2 THEN [kind |-> "Math", range |-> [start |-> 20, end |-> 25]]
    ELSE NoNode

\* Mapping entries a chunk can hold.
Entry(sp, a, b) == [span |-> sp, range |-> [start |-> a, end |-> b]]

LocEntries ==
    {NoEntry, Entry(SpanT1, 0, 1), Entry(SpanT1, 1, 2), Entry(SpanT1, 1, 3),
     Entry(SpanT2, 0, 1), Entry(SpanN1, 0, 1), Entry(SpanN2, 0, 1),
     Entry(SpanM, 0, 1), Entry(SpanX, 0, 1)}

RECURSIVE SeqsUpTo(_, _)
SeqsUpTo(S, k) ==
    IF k = 0 THEN {<<>>}
    ELSE LET shorter == SeqsUpTo(S, k - 1)
         IN  shorter \cup {Append(q, e) : q \in shorter, e \in S}

\* The three early `continue`s: the node the entry resolves to, or NoNode.
Resolve(e) ==
    IF e.span.id = "none" THEN NoNode
    ELSE IF e.span.id # SourceId THEN NoNode
    ELSE Find(e.span)

\* node.kind() == SyntaxKind::Text: the absolute range of the entry.
TextRange(node, e) ==
    [start |-> node.range.start + e.range.start, end |-> node.range.start + e.range.end]

\* Variants of PushText and PushNode that always push.
PushTextNoMerge(locs, range) == Append(locs, range)

PushNodeNoDedup(locs, range) == Append(locs, range)

PushText(locs, range) ==
    IF locs # <<>> /\ locs[Len(locs)].end = range.start
    THEN [locs EXCEPT ![Len(locs)].end = range.end]
    ELSE Append(locs, range)

PushNode(locs, range) ==
    IF locs # <<>> /\ locs[Len(locs)] = range
    THEN locs
    ELSE Append(locs, range)

\* Variant of LocationStep that pushes an empty range for an entry without a
\* node.
LocationStepPushEmpty(locs, e) ==
    LET node == Resolve(e)
    IN  IF node = NoNode THEN Append(locs, [start |-> 0, end |-> 0])
        ELSE IF node.kind = "Text" THEN PushText(locs, TextRange(node, e))
        ELSE PushNode(locs, node.range)

\* One iteration of the loop over the slice.
LocationStep(locs, e) ==
    LET node == Resolve(e)
    IN  IF node = NoNode THEN locs
        ELSE IF node.kind = "Text" THEN PushText(locs, TextRange(node, e))
        ELSE PushNode(locs, node.range)

InitLoc ==
    /\ chunk_size = 0
    /\ file_id = "F1"
    /\ res = <<>>
    /\ converter = new(0)
    /\ page = 0
    /\ stack = <<>>
    /\ pc = "done"
    /\ item = NoItem
    /\ n = 0
    /\ prior = <<>>
    /\ solo = [res |-> <<>>, converter |-> new(0)]
    /\ produced = <<>>
    /\ chars \in SeqsUpTo(LocEntries, MaxChars)
    /\ suggestion \in [start : 0..MaxChars, end : 0..MaxChars]
    /\ i = 0
    /\ locations = <<>>
    /\ lpc = "idle"
    /\ build = "release"
    /\ glyph = GlyphA
    /\ entry = NoEntry
    /\ mpc = "idle"

\* &self.chars[suggestion.start..suggestion.end], which panics on a range that
\* is not within the vector, and locations = Vec::new().
LocSlice ==
    /\ lpc = "idle"
    /\ lpc' = IF suggestion.start <= suggestion.end /\ suggestion.end <= Len(chars)
              THEN "loop" ELSE "panic"
    /\ UNCHANGED <<chars, suggestion, i, locations>>
    /\ UNCHANGED cvars
    /\ UNCHANGED mvars

LocLoop ==
    /\ lpc = "loop"
    /\ i < suggestion.end - suggestion.start
    /\ locations' = LocationStep(locations, chars[suggestion.start + i + 1])
    /\ i' = i + 1
    /\ UNCHANGED <<chars, suggestion, lpc>>
    /\ UNCHANGED cvars
    /\ UNCHANGED mvars

LocReturn ==
    /\ lpc = "loop"
    /\ i = suggestion.end - suggestion.start
    /\ lpc' = "returned"
    /\ UNCHANGED <<chars, suggestion, i, locations>>
    /\ UNCHANGED cvars
    /\ UNCHANGED mvars

NextLoc == LocSlice \/ LocLoop \/ LocReturn

SpecLoc == InitLoc /\ [][NextLoc]_vars

\* ------------------------------------------------------------------ entry of a glyph
\* Glyphs over the whole width of u16: offsets and ranges at both ends.
WideGlyphs ==
    {[span |-> <<SpanT1, o>>, range |-> [start |-> a, end |-> b]] :
        o \in {0, 1, 255, 256, 32768, 65534, 65535},
        a \in {0, 1, 65534},
        b \in {1, 2, 3, 65535}}

\* g.span.1 + g.range.len() as u16 does not fit u16.
Overflows(g) == g.span[2] + U16(g.range.end - g.range.start) > 65535

InitMap ==
    /\ chunk_size = 0
    /\ file_id = "F1"
    /\ res = <<>>
    /\ converter = new(0)
    /\ page = 0
    /\ stack = <<>>
    /\ pc = "done"
    /\ item = NoItem
    /\ n = 0
    /\ prior = <<>>
    /\ solo = [res |-> <<>>, converter |-> new(0)]
    /\ produced = <<>>
    /\ chars = <<>>
    /\ suggestion = [start |-> 0, end |-> 0]
    /\ i = 0
    /\ locations = <<>>
    /\ lpc = "idle"
    /\ build \in {"debug", "release"}
    /\ glyph \in {g \in WideGlyphs : g.range.start <= g.range.end}
    /\ entry = NoEntry
    /\ mpc = "idle"

\* The closure at lines 159-161 applied to a glyph: with overflow checks the
\* addition panics when the sum does not fit, without them it wraps.
MapGlyph ==
    /\ mpc = "idle"
    /\ IF Overflows(glyph) /\ build = "debug"
       THEN /\ mpc' = "panic"
            /\ entry' = entry
       ELSE /\ mpc' = "built"
            /\ entry' = GlyphEntry(glyph)
    /\ UNCHANGED <<build, glyph>>
    /\ UNCHANGED cvars
    /\ UNCHANGED lvars

NextMap == MapGlyph

SpecMap == InitMap /\ [][NextMap]_vars

\* ------------------------------------------------------------------ properties
\* Every (text, mapping) pair that exists: the emitted chunks and the live one.
Buffers == {res[k] : k \in 1..Len(res)} \cup {<<converter.text, converter.mapping>>}

HasFile(mapping, fid) == \E k \in 1..Len(mapping) : mapping[k].span.id = fid

\* Character indices at which an inserted "\n\n" starts (item texts hold no "\n").
ParbreakStarts(text) ==
    {p \in 1..Len(text) :
        /\ text[p] = "\n"
        /\ Cardinality({q \in 1..(p - 1) : text[q] = "\n"}) % 2 = 0}

\* The step is a Converter::item call on a Text item.
TextStep == n' = n + 1 /\ item'.kind = "Text"

\* whitespace() takes neither the same-x nor the next-line branch for item it.
AtParBoundary(c, it) ==
    /\ ~approx_eq(c.x, it.pos.x)
    /\ ~approx_eq(c.y + EmAt(it.cap_height + LINE_SPACING, it.size), it.pos.y)

\* The entries the latest Text item pushed: the tail of the live mapping.
RunEntries ==
    SubSeq(converter.mapping,
           Len(converter.mapping) - Utf16Len(item.text) + 1,
           Len(converter.mapping))

\* C1: in the live converter and in every emitted chunk the mapping has as many
\* entries as the text has UTF-16 code units.
C1_LengthInvariant ==
    \A b \in Buffers : Len(b[2]) = Utf16Len(b[1])

\* An emitted chunk holding a two-unit character and an inserted space.
C1_Witness ==
    \E k \in 1..Len(res) :
        /\ \E q \in 1..Len(res[k][1]) : res[k][1][q] = "U+1F600"
        /\ \E q \in 1..Len(res[k][1]) : res[k][1][q] = " "

\* C2: every emitted chunk has an entry whose span's file is file_id.
C2_ChunkHasFile ==
    \A k \in 1..Len(res) : HasFile(res[k][2], file_id)

\* A chunk emitted by a flush in the middle of the first page.
C2_Witness ==
    /\ pc = "frame"
    /\ page = 1
    /\ Len(res) = 1

\* C3: in every buffer each inserted paragraph separator starts at a mapping
\* length of at most chunk_size, so none is appended past the limit and only
\* the last paragraph of a chunk can carry it over chunk_size.
C3_ParbreakWithinLimit ==
    \A b \in Buffers :
        \A p \in ParbreakStarts(b[1]) :
            Utf16Len(SubSeq(b[1], 1, p - 1)) <= chunk_size

\* An emitted chunk longer than chunk_size whose paragraph separator was
\* appended at exactly chunk_size entries.
C3_Witness ==
    \E k \in 1..Len(res) :
        /\ Len(res[k][2]) > chunk_size
        /\ \E p \in ParbreakStarts(res[k][1]) :
              Utf16Len(SubSeq(res[k][1], 1, p - 1)) = chunk_size
        /\ chunk_size > 0

\* C4: document() never fails: the traversal is never aborted by a panic.
C4_NoFatalError == pc # "panic"

\* Number of positions the glyphs before the j-th account for.
RECURSIVE CoveredBefore(_, _)
CoveredBefore(glyphs, j) ==
    IF j <= 1 THEN 0
    ELSE (glyphs[j - 1].range.end - glyphs[j - 1].range.start)
         + CoveredBefore(glyphs, j - 1)

\* C5: a Text item's glyph of range length k >= 1 supplies the entries of k
\* consecutive positions of the run (as far as the run reaches), the next glyph
\* starting at the position after them.
C5_GlyphCoversRange ==
    [][(TextStep /\ pc' = "frame")
       => \A j \in 1..Len(item'.glyphs) :
            LET first == CoveredBefore(item'.glyphs, j) + 1
                last == CoveredBefore(item'.glyphs, j + 1)
            IN  \A q \in first..last :
                    q <= Len(RunEntries')
                        => RunEntries'[q].span = item'.glyphs[j].span[1]]_vars

\* C6: a Text item at a paragraph boundary with more than chunk_size entries
\* accumulated pushes the (text, mapping) unchanged if it contains the file and
\* drops it otherwise, and the run starts a fresh converter.
C6_FlushAtBoundary ==
    [][(/\ TextStep
        /\ AtParBoundary(converter, item')
        /\ Len(converter.mapping) > chunk_size)
       => /\ pc' = "frame"
          /\ res' = IF converter.contains_file
                    THEN Append(res, <<converter.text, converter.mapping>>)
                    ELSE res
          /\ converter'.text = item'.text
          /\ Len(converter'.mapping) = Utf16Len(item'.text)
          /\ converter'.contains_file = HasFile(converter'.mapping, file_id)
          /\ (\A k \in 1..Len(converter'.mapping) : converter'.mapping[k].span.id = "none")
                => converter'.span = <<Detached, 0>>
          /\ converter'.chunk_size = chunk_size]_vars

\* A flush in the middle of the first page pushed a chunk longer than
\* chunk_size and the run that caused it is the whole of the new buffer.
C6_Witness ==
    /\ pc = "frame"
    /\ page = 1
    /\ item.kind = "Text"
    /\ Len(res) = 1
    /\ Len(res[1][2]) > chunk_size
    /\ converter.text = item.text
    /\ item.text # <<>>

\* C9: a Shape, Image or Meta item leaves the converter and the output list as
\* they were.
C9_NoopItem ==
    [][(n' = n + 1 /\ item'.kind \in NoopKinds)
       => (converter' = converter /\ res' = res /\ pc' = pc)]_vars

\* A Shape item visited after text was accumulated away from the origin.
C9_Witness ==
    /\ item.kind = "Shape"
    /\ converter.text # <<>>
    /\ converter.x = 3

\* C10: a Text item whose x is approximately the cursor's x inserts no
\* separator, flushes nothing, and appends exactly the run's text and one entry
\* per UTF-16 code unit of it.
C10_SameX ==
    [][(TextStep /\ approx_eq(converter.x, item'.pos.x))
       => /\ pc' = "frame"
          /\ res' = res
          /\ converter'.text = converter.text \o item'.text
          /\ Len(converter'.mapping) = Len(converter.mapping) + Utf16Len(item'.text)
          /\ SubSeq(converter'.mapping, 1, Len(converter.mapping)) = converter.mapping]_vars

\* Two runs on one page, the second one line lower, glyphless and within the
\* tolerance of the cursor's x: no separator between them.
C10_Witness ==
    /\ pc = "frame"
    /\ n = 2
    /\ item.kind = "Text"
    /\ item.glyphs = <<>>
    /\ item.pos = [x |-> 2, y |-> 4]
    /\ converter.text = <<"a", "U+1F600">>
    /\ Len(converter.mapping) = 3
    /\ res = <<>>

\* C11: the output list is the outputs of the earlier pages, each processed
\* alone from a fresh converter, in page order, followed by the output of the
\* current page processed alone; the live converter is the one the page alone
\* would have.
C11_PagesIndependent ==
    /\ res = prior \o solo.res
    /\ converter = solo.converter

\* A two-page document returned two different chunks, one per page: neither
\* is long enough to have been flushed.
C11_Witness ==
    /\ pc = "done"
    /\ page = 2
    /\ chunk_size = 1
    /\ Len(res) = 2
    /\ Len(res[1][2]) = 1
    /\ Len(res[2][2]) = 1
    /\ res[1] # res[2]

\* whitespace() takes the next-line branch for item it.
OnNextLine(c, it) ==
    /\ ~approx_eq(c.x, it.pos.x)
    /\ approx_eq(c.y + EmAt(it.cap_height + LINE_SPACING, it.size), it.pos.y)

\* What a Text step on the next-line branch does when `same` says that the run
\* continues the tracked span: nothing inserted, else one space with one
\* detached entry; never a flush.
NextLineEffect(same) ==
    /\ pc' = "frame"
    /\ res' = res
    /\ IF same
       THEN /\ converter'.text = converter.text \o item'.text
            /\ Len(converter'.mapping) = Len(converter.mapping) + Utf16Len(item'.text)
       ELSE /\ converter'.text = converter.text \o <<" ">> \o item'.text
            /\ Len(converter'.mapping) = Len(converter.mapping) + 1 + Utf16Len(item'.text)
            /\ converter'.mapping[Len(converter.mapping) + 1] = NoEntry
    /\ SubSeq(converter'.mapping, 1, Len(converter.mapping)) = converter.mapping

C14_ParbreakAppended ==
    [][(/\ TextStep
        /\ AtParBoundary(converter, item')
        /\ Len(converter.mapping) <= chunk_size)
       => /\ pc' = "frame"
          /\ res' = res
          /\ converter'.text = converter.text \o <<"\n", "\n">> \o item'.text
          /\ Len(converter'.mapping)
                = Len(converter.mapping) + 2 + Utf16Len(item'.text)
          /\ SubSeq(converter'.mapping, 1, Len(converter.mapping) + 2)
                = converter.mapping \o <<NoEntry, NoEntry>>
          /\ converter.contains_file => converter'.contains_file]_vars

\* With chunk_size = 1 a paragraph break was appended to a buffer of exactly
\* one entry.
C14_Witness ==
    /\ pc = "frame"
    /\ chunk_size = 1
    /\ res = <<>>
    /\ Len(converter.text) >= 3
    /\ SubSeq(converter.text, 1, 3) = <<" ", "\n", "\n">>
    /\ SubSeq(converter.mapping, 1, 3) = <<NoEntry, NoEntry, NoEntry>>

\* The mappings of the chunks of r, concatenated in output order.
RECURSIVE AllEmitted(_)
AllEmitted(r) == IF r = <<>> THEN <<>> ELSE Head(r)[2] \o AllEmitted(Tail(r))

\* While the traversal runs no entry of file_id is dropped or repeated: those
\* of the emitted chunks followed by the live buffer are the ones pushed so
\* far, in traversal order.
FileEntriesKept ==
    SelectSeq(AllEmitted(res) \o converter.mapping, IsFileEntry) = produced

\* C16: when the traversal has ended, the entries of file_id in the emitted
\* chunks, read in output order, are exactly the entries of file_id pushed
\* during the traversal, each once and in traversal order.
C16_AllEmittedAtEnd ==
    pc \in {"done", "panic"} => SelectSeq(AllEmitted(res), IsFileEntry) = produced

\* The step is a Text item that makes insert_parbreak() call seperate().
FlushStep ==
    /\ TextStep
    /\ AtParBoundary(converter, item')
    /\ Len(converter.mapping) > chunk_size

\* C17 as stated: no emitted chunk begins with an inserted separator.
C17_NoLeadingSeparator ==
    \A k \in 1..Len(res) :
        res[k][1] # <<>> => res[k][1][1] \notin {" ", "\n"}

\* C17 amended: a buffer started by a flush whose run is not empty begins with
\* the run's first character and first entry; a buffer that is kept keeps its
\* first character and entry; and a chunk that is emitted is the live buffer.
C17_FlushStartsWithRun ==
    [][/\ (FlushStep /\ item'.text # <<>>)
          => /\ converter'.text[1] = item'.text[1]
             /\ converter'.text[1] \notin {" ", "\n"}
             /\ converter'.mapping[1]
                   = IF item'.glyphs = <<>> THEN NoEntry
                     ELSE GlyphEntry(item'.glyphs[1])
       /\ (converter.text # <<>> /\ pc = "frame" /\ pc' = "frame" /\ ~FlushStep)
          => /\ converter'.text[1] = converter.text[1]
             /\ converter'.mapping[1] = converter.mapping[1]
       /\ res' # res
          => res' = Append(res, <<converter.text, converter.mapping>>)]_vars

\* A page gave two chunks: the first, the page's first, begins with an
\* inserted paragraph break, the second, started by a flush, with its run.
C17_Witness ==
    /\ pc = "done"
    /\ page = 1
    /\ Len(res) = 2
    /\ res[1][1][1] = "\n"
    /\ res[2][1][1] = "a"
    /\ res[2][2][1] = GlyphEntry(GlyphA)

\* ---- location()
\* The k-th entry of the slice.
SliceAt(k) == chars[suggestion.start + k]

SliceLen == suggestion.end - suggestion.start

\* The latest entry before the k-th that resolves to a node, or 0.
PrevResolved(k) ==
    LET js == {j \in 1..(k - 1) : Resolve(SliceAt(j)) # NoNode}
    IN  IF js = {} THEN 0 ELSE CHOOSE j \in js : \A h \in js : h <= j

\* C7: an entry that resolves to a sub-range of a literal text node starting
\* where the previous resolved entry's sub-range of the same node ends extends
\* the last output range instead of adding one, whatever unresolved entries
\* lie between the two.
C7_Coalesce ==
    [][(lpc = "loop" /\ i' = i + 1)
       => LET e == SliceAt(i')
              j == PrevResolved(i')
          IN  (/\ j > 0
               /\ Resolve(e).kind = "Text"
               /\ Resolve(SliceAt(j)).kind = "Text"
               /\ SliceAt(j).span = e.span
               /\ TextRange(Resolve(SliceAt(j)), SliceAt(j)).end
                     = TextRange(Resolve(e), e).start)
              => /\ Len(locations) >= 1
                 /\ Len(locations') = Len(locations)
                 /\ locations'[Len(locations')].start = locations[Len(locations)].start
                 /\ locations'[Len(locations')].start
                       <= TextRange(Resolve(SliceAt(j)), SliceAt(j)).start
                 /\ locations'[Len(locations')].end = TextRange(Resolve(e), e).end]_vars

\* Two contiguous sub-ranges of one text node around a foreign-file entry gave
\* one range.
C7_Witness ==
    /\ lpc = "returned"
    /\ suggestion = [start |-> 0, end |-> 3]
    /\ chars = <<Entry(SpanT1, 0, 1), Entry(SpanX, 0, 1), Entry(SpanT1, 1, 2)>>
    /\ locations = <<[start |-> 10, end |-> 12]>>

\* C8: a non-empty suggestion whose entries all resolve to non-text nodes of
\* one and the same range returns exactly that range.
C8_Dedup ==
    (lpc = "returned" /\ SliceLen >= 1) =>
        LET nodes == [k \in 1..SliceLen |-> Resolve(SliceAt(k))]
        IN  (\A k \in 1..SliceLen :
                /\ nodes[k] # NoNode
                /\ nodes[k].kind # "Text"
                /\ nodes[k].range = nodes[1].range)
            => locations = <<nodes[1].range>>

\* Three entries of two different nodes with the same range gave one range.
C8_Witness ==
    /\ lpc = "returned"
    /\ suggestion = [start |-> 0, end |-> 3]
    /\ chars = <<Entry(SpanN1, 0, 1), Entry(SpanN2, 0, 1), Entry(SpanN1, 0, 1)>>
    /\ locations = <<[start |-> 20, end |-> 25]>>

\* The entry is detached, of another file than the source, or has no node.
Skipped(e) ==
    \/ e.span = Detached
    \/ e.span.id # SourceId
    \/ Find(e.span) = NoNode

\* C15: with start <= end <= the mapping's length location() takes the slice
\* and runs to its return without failing, and an iteration on a detached,
\* foreign-file or unresolvable entry leaves the ranges found so far as they
\* are.
C15_SilentSkip ==
    [][/\ (lpc = "idle" /\ suggestion.start <= suggestion.end
                        /\ suggestion.end <= Len(chars)) => lpc' = "loop"
       /\ lpc = "loop" => lpc' \in {"loop", "returned"}
       /\ (lpc = "loop" /\ i' = i + 1 /\ Skipped(SliceAt(i')))
             => locations' = locations]_vars

\* An unresolvable, a resolvable and a foreign-file entry gave the one range of
\* the resolvable entry.
C15_Witness ==
    /\ lpc = "returned"
    /\ suggestion = [start |-> 0, end |-> 3]
    /\ chars = <<Entry(SpanM, 0, 1), Entry(SpanN1, 0, 1), Entry(SpanX, 0, 1)>>
    /\ locations = <<[start |-> 20, end |-> 25]>>

\* C18: no two consecutive ranges of the list location() builds are identical.
C18_NoAdjacentDuplicates ==
    \A k \in 1..(Len(locations) - 1) : locations[k] # locations[k + 1]

\* ---- entry of a glyph
GlyphRangeLen == glyph.range.end - glyph.range.start

\* C19 as stated: for every offset and range length of u16 the entry is built
\* without overflow, with start <= end and end - start the range length.
C19_NoOverflow ==
    /\ mpc # "panic"
    /\ mpc = "built" =>
          /\ entry.range.start <= entry.range.end
          /\ entry.range.end - entry.range.start = GlyphRangeLen

\* What the closure does: when offset + range length fits u16 the entry is
\* [offset, offset + range length); when it does not, the addition panics
\* where overflow checks are on and wraps to an end below the start where
\* they are off.
C19_FitsOrOverflows ==
    mpc # "idle" =>
        IF glyph.span[2] + GlyphRangeLen <= 65535
        THEN /\ mpc = "built"
             /\ entry.range.start = glyph.span[2]
             /\ entry.range.end = glyph.span[2] + GlyphRangeLen
             /\ entry.range.start <= entry.range.end
        ELSE IF build = "debug"
        THEN mpc = "panic"
        ELSE /\ mpc = "built"
             /\ entry.range.start = glyph.span[2]
             /\ entry.range.end = glyph.span[2] + GlyphRangeLen - 65536
             /\ entry.range.end < entry.range.start

====
